---- MODULE Spec2Model ----
(***************************************************************************)
(* Model of common/status_popup.cpp: one STATUS_MIN_MAX_POPUP instance     *)
(* (a STATUS_POPUP with its single-shot expiry timer, plus the current /   *)
(* min / max display) driven from the UI event loop.                       *)
(*                                                                         *)
(* Doubles are modelled by small integers, milliseconds by clock ticks.    *)
(* Texts are sequences of tokens; the empty text is <<>>.                  *)
(***************************************************************************)
EXTENDS Integers, Sequences, FiniteSets

\* ---- bounds of the model ----
MaxDur == 2
MaxVal == 1

Durations == 0..MaxDur
Values == 0..MaxVal
Points == {<<0, 0>>, <<1, 1>>}
Labels == {<<"len">>}

\* window backgrounds the system theme may give (r, g, b bytes)
BgColours == {<<127, 127, 127>>, <<255, 0, 0>>, <<240, 240, 240>>}

VARIABLES
    win,            \* wxPopupWindow: [visible, raised, pos]
    m_expireTimer,  \* wxTimer: the milliseconds left of each pending one-shot start
    m_min, m_max,   \* stored bounds
    m_minText, m_maxText, m_currentLabel, m_currentText,   \* label texts
    m_icon,         \* in-range icon shown?
    minColour, maxColour,    \* foreground colours of m_minText / m_maxText
    clientSize,     \* client width of the popup window
    bg,             \* background colour of the popup window
    lastOp,         \* history: the last operation or callback that ran
    lastArm,        \* history: the last arming call, [ms, elapsed, replaced], or NoArm
    current,        \* history: the value of the last SetCurrent, or NoValue
    fresh           \* history: no SetMinMax since the last SetCurrent

widgets == <<m_min, m_max, m_minText, m_maxText, m_currentLabel, m_currentText,
             m_icon, minColour, maxColour, clientSize>>
vars == <<win, m_expireTimer, widgets, bg, lastOp, lastArm, current, fresh>>

NoArm == [ms |-> -1, elapsed |-> 0, replaced |-> FALSE]
NoValue == -1

\* an arming call; replaced: an expiry was pending when it was made
Armed(ms) == [ms |-> ms, elapsed |-> 0, replaced |-> m_expireTimer # {}]

\* ---- colours ----
HalfLightness == 255
LightRed == 70
DarkRed == 30
FullSaturation == 100

Max2(a, b) == IF a >= b THEN a ELSE b
Min2(a, b) == IF a <= b THEN a ELSE b

\* COLOR4D::ToHSL, lightness component, in units of 1/510:
\* l = (max(r,g,b) + min(r,g,b)) / 2 with channels scaled to [0,1]
ToHSL_l(c) == Max2(c[1], Max2(c[2], c[3])) + Min2(c[1], Min2(c[2], c[3]))

\* COLOR4D::FromHSL, kept as the (hue, saturation %, lightness %) it encodes
FromHSL(h, s, l) == [h |-> h, s |-> s, l |-> l]

\* wxSystemSettings::GetColour( wxSYS_COLOUR_BTNTEXT ), and the foreground a
\* wxStaticText has before any SetForegroundColour
SysBtnText == [sys |-> "wxSYS_COLOUR_BTNTEXT"]
DefaultColour == [sys |-> "default"]

\* the contrasting red of SetCurrent
WarningRedInclusive(bgc) ==
    FromHSL(0, FullSaturation, IF ToHSL_l(bgc) <= HalfLightness THEN LightRed ELSE DarkRed)

WarningRed(bgc) ==
    FromHSL(0, FullSaturation, IF ToHSL_l(bgc) < HalfLightness THEN LightRed ELSE DarkRed)

\* ---- value formatting ----
Digits == <<"0", "1", "2", "3", "4", "5", "6", "7", "8", "9">>

RECURSIVE DigitText(_)
DigitText(n) ==
    IF n < 10 THEN <<Digits[n + 1]>>
    ELSE DigitText(n \div 10) \o <<Digits[(n % 10) + 1]>>

\* EDA_DRAW_FRAME::MessageTextFromValue( value, aAddUnitLabel = true )
MessageTextFromValue(v, addUnits) ==
    DigitText(v) \o (IF addUnits THEN <<" ", "mm">> ELSE <<>>)

\* ---- wxWindow / wxTimer primitives as used by the popup ----
Show(w, b) == [w EXCEPT !.visible = b]
Hide(w) == Show(w, FALSE)
Raise(w) == [w EXCEPT !.raised = TRUE]
SetPosition(w, p) == [w EXCEPT !.pos = p]

\* wxTimer::StartOnce: a running timer is stopped, then restarted
StartOnceEarly(timer, ms) == {Max2(ms - 1, 0)}
StartOnceNoCancel(timer, ms) == timer \cup {ms}
StartOnce(timer, ms) == {ms}

\* the starts whose interval has run out: their event can be delivered
Due(timer) == {r \in timer : r = 0}

\* one millisecond passes
Elapse(timer) == {Max2(r - 1, 0) : r \in timer}

IconWidth == 12

\* m_topSizer->Fit( m_panel ): current column, icon, min column, max column
PanelWidth(curLabel, curText, minText, maxText) ==
    Max2(Len(curLabel), Len(curText)) + IconWidth
        + Max2(1, Len(minText)) + Max2(1, Len(maxText))

\* ---- initial state: after the STATUS_MIN_MAX_POPUP constructor ----
Init ==
    /\ win = [visible |-> FALSE, raised |-> FALSE, pos |-> <<0, 0>>]
    /\ m_expireTimer = {}
    /\ m_min = 0
    /\ m_max = 0
    /\ m_minText = <<>>
    /\ m_maxText = <<>>
    /\ m_currentLabel = <<"current">>
    /\ m_currentText = <<>>
    /\ m_icon = TRUE
    /\ minColour = DefaultColour
    /\ maxColour = DefaultColour
    /\ clientSize = 0
    /\ bg \in BgColours
    /\ lastOp = "Init"
    /\ lastArm = NoArm
    /\ current = NoValue
    /\ fresh = FALSE

\* ---- STATUS_POPUP ----
\* Popup(): Show( true ); Raise();
PopupEffect(w) == Raise(Show(w, TRUE))

\* Expire( aMsecs ): m_expireTimer.StartOnce( aMsecs );
ExpireEffect(timer, aMsecs) == StartOnce(timer, aMsecs)

PopupStopsTimer ==
    /\ win' = PopupEffect(win)
    /\ m_expireTimer' = {}
    /\ lastOp' = "Popup"
    /\ UNCHANGED <<widgets, bg, lastArm, current, fresh>>

Popup ==
    /\ win' = PopupEffect(win)
    /\ lastOp' = "Popup"
    /\ UNCHANGED <<m_expireTimer, widgets, bg, lastArm, current, fresh>>

Expire(aMsecs) ==
    /\ m_expireTimer' = ExpireEffect(m_expireTimer, aMsecs)
    /\ lastOp' = "Expire"
    /\ lastArm' = Armed(aMsecs)
    /\ UNCHANGED <<win, widgets, bg, current, fresh>>

PopupForNoRaise(aMsecs) ==
    /\ win' = Show(win, TRUE)
    /\ m_expireTimer' = StartOnce(m_expireTimer, aMsecs)
    /\ lastOp' = "PopupFor"
    /\ lastArm' = Armed(aMsecs)
    /\ UNCHANGED <<widgets, bg, current, fresh>>

PopupFor(aMsecs) ==
    /\ win' = Raise(Show(win, TRUE))
    /\ m_expireTimer' = StartOnce(m_expireTimer, aMsecs)
    /\ lastOp' = "PopupFor"
    /\ lastArm' = Armed(aMsecs)
    /\ UNCHANGED <<widgets, bg, current, fresh>>

Move(aWhere) ==
    /\ win' = SetPosition(win, aWhere)
    /\ lastOp' = "Move"
    /\ UNCHANGED <<m_expireTimer, widgets, bg, lastArm, current, fresh>>

\* a periodic timer would stay armed after notifying
onExpirePeriodic(r) ==
    /\ r \in Due(m_expireTimer)
    /\ m_expireTimer' = m_expireTimer
    /\ win' = Hide(win)
    /\ lastOp' = "onExpire"
    /\ UNCHANGED <<widgets, bg, lastArm, current, fresh>>

\* the timer event of a start that ran out is delivered; a one-shot timer
\* is stopped when it notifies
onExpire(r) ==
    /\ r \in Due(m_expireTimer)
    /\ m_expireTimer' = m_expireTimer \ {r}
    /\ win' = Hide(win)
    /\ lastOp' = "onExpire"
    /\ UNCHANGED <<widgets, bg, lastArm, current, fresh>>

\* ---- STATUS_MIN_MAX_POPUP ----
SetMinMaxSwapped(aMin, aMax) ==
    /\ m_min' = aMin
    /\ m_minText' = MessageTextFromValue(aMin, FALSE)
    /\ m_max' = aMax
    /\ m_maxText' = MessageTextFromValue(aMin, FALSE)
    /\ lastOp' = "SetMinMax"
    /\ fresh' = FALSE
    /\ UNCHANGED <<win, m_expireTimer, m_currentLabel, m_currentText,
                   m_icon, minColour, maxColour, clientSize, bg, lastArm, current>>

SetMinMax(aMin, aMax) ==
    /\ m_min' = aMin
    /\ m_minText' = MessageTextFromValue(aMin, FALSE)
    /\ m_max' = aMax
    /\ m_maxText' = MessageTextFromValue(aMax, FALSE)
    /\ lastOp' = "SetMinMax"
    /\ fresh' = FALSE
    /\ UNCHANGED <<win, m_expireTimer, m_currentLabel, m_currentText,
                   m_icon, minColour, maxColour, clientSize, bg, lastArm, current>>

\* SetCurrent with the comparisons given as parameters of the three tests
SetCurrentWith(aCurrent, aLabel, inRange, belowMin, aboveMax) ==
    /\ m_currentLabel' = aLabel
    /\ m_currentText' = MessageTextFromValue(aCurrent, TRUE)
    /\ m_icon' = inRange
    /\ minColour' = IF belowMin THEN WarningRed(bg) ELSE SysBtnText
    /\ maxColour' = IF aboveMax THEN WarningRed(bg) ELSE SysBtnText
    /\ clientSize' = PanelWidth(m_currentLabel', m_currentText', m_minText, m_maxText)
    /\ lastOp' = "SetCurrent"
    /\ current' = aCurrent
    /\ fresh' = TRUE
    /\ UNCHANGED <<win, m_expireTimer, m_min, m_max, m_minText, m_maxText,
                   bg, lastArm>>

\* the icon test with the upper bound exclusive
SetCurrentExclusiveMax(aCurrent, aLabel) ==
    SetCurrentWith(aCurrent, aLabel, aCurrent >= m_min /\ aCurrent < m_max,
                   aCurrent < m_min, aCurrent > m_max)

\* the icon test without its upper bound
SetCurrentNoMax(aCurrent, aLabel) ==
    SetCurrentWith(aCurrent, aLabel, aCurrent >= m_min,
                   aCurrent < m_min, aCurrent > m_max)

\* the colour tests with the bounds themselves counted as outside
SetCurrentWarnOnBound(aCurrent, aLabel) ==
    SetCurrentWith(aCurrent, aLabel, aCurrent >= m_min /\ aCurrent <= m_max,
                   aCurrent <= m_min, aCurrent >= m_max)

SetCurrent(aCurrent, aLabel) ==
    /\ m_currentLabel' = aLabel
    /\ m_currentText' = MessageTextFromValue(aCurrent, TRUE)
    /\ m_icon' = (aCurrent >= m_min /\ aCurrent <= m_max)
    /\ minColour' = IF aCurrent < m_min THEN WarningRed(bg) ELSE SysBtnText
    /\ maxColour' = IF aCurrent > m_max THEN WarningRed(bg) ELSE SysBtnText
    /\ clientSize' = PanelWidth(m_currentLabel', m_currentText', m_minText, m_maxText)
    /\ lastOp' = "SetCurrent"
    /\ current' = aCurrent
    /\ fresh' = TRUE
    /\ UNCHANGED <<win, m_expireTimer, m_min, m_max, m_minText, m_maxText,
                   bg, lastArm>>

\* ---- the event loop's clock: one millisecond passes ----
Tick ==
    /\ m_expireTimer' = Elapse(m_expireTimer)
    /\ lastArm' = IF lastArm.elapsed < lastArm.ms
                  THEN [lastArm EXCEPT !.elapsed = @ + 1] ELSE lastArm
    /\ UNCHANGED <<win, widgets, bg, lastOp, current, fresh>>

Next ==
    \/ Popup
    \/ \E d \in Durations : PopupFor(d)
    \/ \E d \in Durations : Expire(d)
    \/ \E p \in Points : Move(p)
    \/ \E r \in m_expireTimer : onExpire(r)
    \/ \E a \in Values, b \in Values : SetMinMax(a, b)
    \/ \E v \in Values, l \in Labels : SetCurrent(v, l)
    \/ Tick

Spec == Init /\ [][Next]_vars

\* ------------------------------------------------------------------------
\* Properties
\* ------------------------------------------------------------------------
Arming == \E d \in Durations : Expire(d) \/ PopupFor(d)
Firing == \E r \in m_expireTimer : onExpire(r)
InRange(v) == m_min <= v /\ v <= m_max

\* C1: after PopupFor(d), d > 0, and nothing but the passing of time, the
\* popup is visible and the timer callback cannot run while less than d has
\* elapsed; when the callback runs, d has elapsed and the popup is hidden.
C1_ShowForHidesAfterDuration ==
    /\ [](lastOp = "PopupFor" /\ lastArm.ms > 0
            => /\ win.visible
               /\ (lastArm.elapsed < lastArm.ms => Due(m_expireTimer) = {}))
    /\ [][lastOp = "PopupFor" /\ lastArm.ms > 0 /\ Firing
            => lastArm.elapsed >= lastArm.ms /\ ~win'.visible]_vars

C1_Witness ==
    /\ lastOp = "PopupFor"
    /\ lastArm.ms = 2
    /\ lastArm.elapsed = 1
    /\ win.visible

\* C2: at most one expiry is pending, and what is left of it is what is left
\* of the most recent arming call; the popup is never hidden before the
\* interval of the most recent arming call has run out.
C2_OnlyLatestDeadlinePending ==
    /\ [](/\ Cardinality(m_expireTimer) <= 1
          /\ m_expireTimer # {}
                => lastArm # NoArm /\ m_expireTimer = {lastArm.ms - lastArm.elapsed})
    /\ [][win.visible /\ ~win'.visible
            => lastArm # NoArm /\ lastArm.elapsed >= lastArm.ms]_vars

\* a second arming replaced a first one whose interval had partly run
C2_Witness ==
    /\ lastOp \in {"Expire", "PopupFor"}
    /\ lastArm.replaced
    /\ lastArm.ms = 2
    /\ lastArm.elapsed = 1
    /\ m_expireTimer = {1}
    /\ win.visible

\* C3: the stored bounds are 0 and 0 at first and thereafter those of the
\* last SetMinMax; SetCurrent(v, label) shows the icon iff m_min <= v <= m_max.
C3_IconAfterSetCurrent ==
    /\ (m_min = 0 /\ m_max = 0)
    /\ [][/\ \A a \in Values, b \in Values :
                SetMinMax(a, b) => m_min' = a /\ m_max' = b
          /\ (~ \E a \in Values, b \in Values : SetMinMax(a, b))
                => UNCHANGED <<m_min, m_max>>
          /\ \A v \in Values, l \in Labels :
                SetCurrent(v, l) => (m_icon' <=> (m_min <= v /\ v <= m_max))]_vars

\* the value equals the upper bound of a range that was set, and the icon shows
C3_Witness ==
    /\ lastOp = "SetCurrent"
    /\ m_minText # <<>>
    /\ m_min < m_max
    /\ current = m_max
    /\ m_icon

\* C4, as claimed: once a current value was given, the icon is visible iff
\* that value lies in the stored range.
C4_Original == current # NoValue => (m_icon <=> InRange(current))

\* C4, amended: while no SetMinMax has followed the last SetCurrent, the icon
\* is visible iff the current value lies in the stored range.
C4_IconWhileRangeUnchanged == fresh => (m_icon <=> InRange(current))

\* other operations have followed the SetCurrent, but no SetMinMax
C4_Witness ==
    /\ fresh
    /\ lastOp = "onExpire"
    /\ current > m_max
    /\ ~m_icon

\* C5: SetCurrent(v, label) gives the min text the warning colour iff
\* v < m_min and the max text the warning colour iff v > m_max; the other
\* colour is the normal foreground colour.
C5_BoundColours ==
    [][\A v \in Values, l \in Labels :
            SetCurrent(v, l)
                => /\ minColour' \in {WarningRed(bg), SysBtnText}
                   /\ maxColour' \in {WarningRed(bg), SysBtnText}
                   /\ (minColour' = WarningRed(bg) <=> v < m_min)
                   /\ (maxColour' = WarningRed(bg) <=> v > m_max)]_vars

\* the value equals the upper bound and is under the lower one
C5_Witness ==
    /\ lastOp = "SetCurrent"
    /\ fresh
    /\ current = m_max
    /\ current < m_min
    /\ maxColour = SysBtnText
    /\ minColour = WarningRed(bg)

\* C6: the timer callback hides the popup and changes nothing else; no
\* expiry is pending after it.
C6_OnExpireOnlyHides ==
    [][Firing
            => /\ win' = [win EXCEPT !.visible = FALSE]
               /\ m_expireTimer' = {}
               /\ UNCHANGED <<widgets, bg>>]_vars

C6_Witness ==
    /\ lastOp = "onExpire"
    /\ ~win.visible
    /\ win.pos # <<0, 0>>
    /\ m_minText # <<>>
    /\ current # NoValue

\* C7: PopupFor(d) ends in the state that Popup() followed at once by
\* Expire(d) ends in.
C7_PopupForIsPopupThenExpire ==
    [][\A d \in Durations :
            PopupFor(d)
                => /\ win' = PopupEffect(win)
                   /\ m_expireTimer' = ExpireEffect(m_expireTimer, d)
                   /\ UNCHANGED <<widgets, bg>>]_vars

\* PopupFor was the first call: the window was neither shown nor raised
C7_Witness ==
    /\ lastOp = "PopupFor"
    /\ win.visible
    /\ win.raised
    /\ win.pos = <<0, 0>>
    /\ m_expireTimer # {}

\* C8: a bound text that has a warning colour has hue 0, full saturation and
\* lightness 0.7 if the background lightness is under 0.5, 0.3 if not.
C8_WarningColourContrast ==
    \A c \in {minColour, maxColour} :
        c \notin {DefaultColour, SysBtnText}
            => /\ c.h = 0
               /\ c.s = 100
               /\ (2 * ToHSL_l(bg) < 510 => c.l = 70)
               /\ (2 * ToHSL_l(bg) >= 510 => c.l = 30)

\* the background lightness is exactly 0.5
C8_Witness ==
    /\ lastOp = "SetCurrent"
    /\ 2 * ToHSL_l(bg) = 510
    /\ maxColour = FromHSL(0, 100, 30)

\* C9: SetMinMax(a, b) stores a and b, shows the formatted bounds, and leaves
\* the current label and text, the icon, the colours, the window and the
\* timer as they were.
C9_SetMinMaxFrame ==
    [][\A a \in Values, b \in Values :
            SetMinMax(a, b)
                => /\ m_min' = a
                   /\ m_max' = b
                   /\ m_minText' = MessageTextFromValue(m_min', FALSE)
                   /\ m_maxText' = MessageTextFromValue(m_max', FALSE)
                   /\ UNCHANGED <<m_currentLabel, m_currentText, m_icon,
                                  minColour, maxColour, win, m_expireTimer>>]_vars

C9_Witness ==
    /\ lastOp = "SetMinMax"
    /\ m_min # m_max
    /\ current # NoValue
    /\ ~m_icon
    /\ win.visible
    /\ m_expireTimer # {}

\* C10: Popup() shows the popup and leaves the timer as it was; the timer
\* callback hides the popup, and nothing else does; without an arming call no
\* expiry becomes pending.
C10_PopupKeepsTimer ==
    [][/\ Popup => win'.visible /\ m_expireTimer' = m_expireTimer
       /\ Firing => ~win'.visible
       /\ (win.visible /\ ~win'.visible) => Firing
       /\ (m_expireTimer = {} /\ ~Arming) => m_expireTimer' = {}]_vars

\* Popup() was called with an expiry pending, which is now due
C10_Witness ==
    /\ lastOp = "Popup"
    /\ win.visible
    /\ Due(m_expireTimer) # {}

====
